---- MODULE Spec2Model ----
(***************************************************************************)
(* Model of the inverse-destination-popularity data pipeline scripts:      *)
(*   scripts/download_from_gcp.py   dataset downloader                     *)
(*   scripts/bronze_layer.py        raw -> bronze copy                     *)
(*   scripts/silver_layer.py        bronze -> silver cleaning              *)
(*   scripts/run_local_pipeline.py  bronze then silver                     *)
(*   scripts/upload_to_gcp.py       silver -> bucket upload                *)
(* Text is modelled as sequences of one-character strings, data frames as  *)
(* a column list plus a sequence of rows, numbers as scaled integers.      *)
(***************************************************************************)
EXTENDS Integers, Sequences, FiniteSets, TLC

VARIABLES
    prog,           \* which entry point / method harness is running
    pc,             \* position of the running program
    exitCode,       \* process exit status, Running while the process lives
    idx,            \* position in the table being iterated (download / upload)
    success_count,  \* success_count of download_all_datasets / upload_cleaned_data
    calls,          \* download_file invocations: [key, public, auth, authAttempts, result]
    saved,          \* destination files written by download_file
    raw,            \* data/raw     : file name -> content or Absent
    bronze,         \* data/bronze  : file name -> content or Absent
    silver,         \* data/silver  : file name -> data frame or Absent
    silverDir,      \* whether data/silver exists
    todo,           \* files of the raw_dir.glob('*.csv') iteration not yet visited
    log,            \* bronze log: one record per File:/Size:/Status: block
    stats,          \* SilverLayer.stats : dataset -> statistics or Absent
    steps,          \* silver steps started, in order, with how each ended
    report,         \* cleaning report written by generate_cleaning_report, or Absent
    client,         \* whether storage.Client was constructed (upload)
    uploads,        \* upload_file_to_gcp invocations: [file, result]
    ncalls,         \* number of cleaning-method calls made on the instance
    lastcall        \* the last of those calls: method, chunk_size, whether it raised

vars == << prog, pc, exitCode, idx, success_count, calls, saved, raw, bronze, silver,
           silverDir, todo, log, stats, steps, report, client, uploads, ncalls,
           lastcall >>

\* exitCode while the process has not terminated
Running == 0 - 1

Absent == [kind |-> "absent"]

(***************************************************************************)
(* Text helpers                                                            *)
(***************************************************************************)
\* Python's `needle in text` on str
Contains(text, needle) ==
    \E i \in 1..(Len(text) - Len(needle) + 1) :
        SubSeq(text, i, i + Len(needle) - 1) = needle

(***************************************************************************)
(* download_from_gcp.py                                                    *)
(***************************************************************************)
UrlAttractions == <<
    "h", "t", "t", "p", "s", ":", "/", "/", "s", "t", "o", "r", "a", "g", "e", ".",
    "g", "o", "o", "g", "l", "e", "a", "p", "i", "s", ".", "c", "o", "m", "/", "b",
    "d", "t", "_", "d", "a", "t", "a", "_", "r", "a", "w", "/", "c", "l", "e", "a",
    "n", "e", "d", "_", "d", "a", "t", "a", "_", "U", "S", "A", ".", "c", "s", "v" >>

UrlPoi == <<
    "h", "t", "t", "p", "s", ":", "/", "/", "s", "t", "o", "r", "a", "g", "e", ".",
    "g", "o", "o", "g", "l", "e", "a", "p", "i", "s", ".", "c", "o", "m", "/", "b",
    "d", "t", "_", "d", "a", "t", "a", "_", "r", "a", "w", "/", "m", "e", "r", "g",
    "e", "d", "_", "f", "i", "l", "e", ".", "c", "s", "v" >>

UrlFlightCsv == <<
    "h", "t", "t", "p", "s", ":", "/", "/", "s", "t", "o", "r", "a", "g", "e", ".",
    "g", "o", "o", "g", "l", "e", "a", "p", "i", "s", ".", "c", "o", "m", "/", "b",
    "d", "t", "_", "d", "a", "t", "a", "_", "r", "a", "w", "/", "f", "l", "i", "g",
    "h", "t", "_", "d", "a", "t", "a", "_", "2", "0", "1", "8", "_", "2", "0", "2",
    "4", ".", "c", "s", "v" >>

UrlFlightParquet == <<
    "h", "t", "t", "p", "s", ":", "/", "/", "s", "t", "o", "r", "a", "g", "e", ".",
    "g", "o", "o", "g", "l", "e", "a", "p", "i", "s", ".", "c", "o", "m", "/", "b",
    "d", "t", "_", "d", "a", "t", "a", "_", "r", "a", "w", "/", "f", "l", "i", "g",
    "h", "t", "_", "d", "a", "t", "a", ".", "p", "a", "r", "q", "u", "e", "t" >>

\* GCP_URLS, in insertion order: destination file name and source URL
GCP_URLS == <<
    [filename |-> "attractions_data_USA.csv",  url |-> UrlAttractions],
    [filename |-> "poi_data_osm.csv",          url |-> UrlPoi],
    [filename |-> "flight_data_2018_2024.csv", url |-> UrlFlightCsv],
    [filename |-> "flight_data.parquet",       url |-> UrlFlightParquet] >>

\* a URL outside the table, for download_file called on its own
UrlOther == <<
    "h", "t", "t", "p", "s", ":", "/", "/", "s", "t", "o", "r", "a", "g", "e", ".",
    "g", "o", "o", "g", "l", "e", "a", "p", "i", "s", ".", "c", "o", "m", "/", "b",
    "d", "t", "_", "d", "a", "t", "a", "_", "r", "a", "w", "/", "t", "r", "i", "p",
    "s", "_", "4", "0", "3", "0", ".", "c", "s", "v" >>

OtherDownload == [filename |-> "trips_4030.csv", url |-> UrlOther]

TxtClientError == <<
    " ", "C", "l", "i", "e", "n", "t", " ", "E", "r", "r", "o", "r", ":", " " >>

TxtForUrl == <<
    " ", "f", "o", "r", " ", "u", "r", "l", ":", " " >>

TxtTimeout == <<
    "H", "T", "T", "P", "S", "C", "o", "n", "n", "e", "c", "t", "i", "o", "n", "P",
    "o", "o", "l", "(", "h", "o", "s", "t", "=", "'", "s", "t", "o", "r", "a", "g",
    "e", ".", "g", "o", "o", "g", "l", "e", "a", "p", "i", "s", ".", "c", "o", "m",
    "'", ",", " ", "p", "o", "r", "t", "=", "4", "4", "3", ")", ":", " ", "R", "e",
    "a", "d", " ", "t", "i", "m", "e", "d", " ", "o", "u", "t", ".", " ", "(", "r",
    "e", "a", "d", " ", "t", "i", "m", "e", "o", "u", "t", "=", "3", "0", ")" >>

loopVars   == << idx, success_count >>
dlVars     == << calls, saved >>
fsVars     == << raw, bronze, silver, silverDir >>
bronzeVars == << todo, log >>
silverVars == << stats, steps, report, ncalls, lastcall >>
upVars     == << client, uploads >>

\* what requests.get / raise_for_status / the streaming write loop can do
PublicOutcomes == {"ok", "http401", "http403", "http404", "http500", "timeout", "oserror"}

\* what the google-cloud-storage fallback can do
AuthOutcomes == {"ok", "import_error", "auth_error"}

\* outcomes raised as requests.exceptions.RequestException (line 46);
\* "oserror" (open/write of the destination) reaches the generic handler (line 85)
IsRequestException(pub) == pub \in {"http401", "http403", "http404", "http500", "timeout"}

\* str(e) of the exception raised for a public outcome: requests formats an
\* HTTPError as "<status> <Client|Server> Error: <reason> for url: <url>"
ErrorText(pub, url) ==
    CASE pub = "http401" -> <<"4", "0", "1">> \o TxtClientError
                            \o << "U", "n", "a", "u", "t", "h", "o", "r", "i", "z", "e", "d" >> \o TxtForUrl \o url
      [] pub = "http403" -> <<"4", "0", "3">> \o TxtClientError
                            \o << "F", "o", "r", "b", "i", "d", "d", "e", "n" >> \o TxtForUrl \o url
      [] pub = "http404" -> <<"4", "0", "4">> \o TxtClientError
                            \o << "N", "o", "t", " ", "F", "o", "u", "n", "d" >> \o TxtForUrl \o url
      [] pub = "http500" -> <<"5", "0", "0">>
                            \o << " ", "S", "e", "r", "v", "e", "r", " ", "E", "r", "r", "o", "r", ":", " " >>
                            \o << "I", "n", "t", "e", "r", "n", "a", "l", " ", "S", "e", "r", "v", "e", "r", " ", "E", "r", "r", "o", "r" >>
                            \o TxtForUrl \o url
      [] pub = "timeout" -> TxtTimeout
      [] OTHER -> << >>

\* the test of line 48
WantsAuthFallback(e) == Contains(e, <<"4", "0", "3">>) \/ Contains(e, <<"4", "0", "1">>)

\* download_file(url, destination): the returned boolean, the number of times the
\* authenticated branch (line 50) was entered, and whether destination was saved
DownloadFile(url, pub, auth) ==
    IF pub = "ok"
    THEN [result |-> TRUE, authAttempts |-> 0, wrote |-> TRUE]
    ELSE IF IsRequestException(pub) /\ WantsAuthFallback(ErrorText(pub, url))
         THEN [result |-> (auth = "ok"), authAttempts |-> 1, wrote |-> (auth = "ok")]
         ELSE [result |-> FALSE, authAttempts |-> 0, wrote |-> FALSE]

\* the record kept of one invocation
CallRecord(entry, pub, auth) ==
    LET r == DownloadFile(entry.url, pub, auth) IN
    [key |-> entry.filename, public |-> pub,
     auth |-> IF r.authAttempts > 0 THEN auth ELSE "none",
     authAttempts |-> r.authAttempts, result |-> r.result]

\* download_file called on its own, with any URL
download_file ==
    /\ prog = "download_file" /\ pc = "start"
    /\ \E entry \in {GCP_URLS[i] : i \in 1..Len(GCP_URLS)} \cup {OtherDownload},
          pub \in PublicOutcomes, auth \in AuthOutcomes :
          /\ calls' = Append(calls, CallRecord(entry, pub, auth))
          /\ saved' = IF DownloadFile(entry.url, pub, auth).wrote
                      THEN saved \cup {entry.filename} ELSE saved
    /\ pc' = "returned"
    /\ UNCHANGED << prog, exitCode, loopVars, fsVars, bronzeVars, silverVars, upVars >>

\* __main__ up to the loop of download_all_datasets (lines 115-99)
download_all_begin ==
    /\ prog = "download_from_gcp" /\ pc = "start"
    /\ success_count' = 0
    /\ idx' = 1
    /\ pc' = "loop"
    /\ UNCHANGED << prog, exitCode, dlVars, fsVars, bronzeVars, silverVars, upVars >>

\* one iteration of the loop of download_all_datasets (lines 101-106)
download_all_iter ==
    /\ prog = "download_from_gcp" /\ pc = "loop" /\ idx <= Len(GCP_URLS)
    /\ \E pub \in PublicOutcomes, auth \in AuthOutcomes :
          LET entry == GCP_URLS[idx]
              r     == DownloadFile(entry.url, pub, auth) IN
          /\ calls' = Append(calls, CallRecord(entry, pub, auth))
          /\ saved' = IF r.wrote THEN saved \cup {entry.filename} ELSE saved
          /\ success_count' = IF r.result THEN success_count + 1 ELSE success_count
    /\ idx' = idx + 1
    /\ UNCHANGED << prog, pc, exitCode, fsVars, bronzeVars, silverVars, upVars >>

\* mutant: any success counts as overall success
DownloadAllResultAny == success_count > 0

\* the value download_all_datasets returns (line 112)
DownloadAllResult == success_count = Len(GCP_URLS)

\* the loop is exhausted: summary and return (lines 108-112)
download_all_return ==
    /\ prog = "download_from_gcp" /\ pc = "loop" /\ idx > Len(GCP_URLS)
    /\ pc' = "returned"
    /\ UNCHANGED << prog, exitCode, loopVars, dlVars, fsVars, bronzeVars, silverVars, upVars >>

\* __main__ after the call (lines 127-132): sys.exit(1) on failure, else fall through
download_main_exit ==
    /\ prog = "download_from_gcp" /\ pc = "returned"
    /\ exitCode' = IF DownloadAllResult THEN 0 ELSE 1
    /\ pc' = "exited"
    /\ UNCHANGED << prog, loopVars, dlVars, fsVars, bronzeVars, silverVars, upVars >>

(***************************************************************************)
(* Cells, text and data frames (pandas as the scripts use it)              *)
(***************************************************************************)
\* numbers are integers counting 1e-7 units, so that 6-decimal rounding acts
Scale == 10 * 1000000

NaN    == [k |-> "nan", n |-> 0, s |-> << >>]
Num(n) == [k |-> "num", n |-> n, s |-> << >>]
Str(s) == [k |-> "str", n |-> 0, s |-> s]
\* a parsed timestamp (pd.to_datetime), carrying the text it was parsed from
Date(s) == [k |-> "date", n |-> 0, s |-> s]

\* Series.isna / notna on one value
IsNa(c) == c.k = "nan"

Lowers == << "a", "b", "c", "d", "e", "f", "g", "h", "i", "j", "k", "l", "m",
             "n", "o", "p", "q", "r", "s", "t", "u", "v", "w", "x", "y", "z" >>
Uppers == << "A", "B", "C", "D", "E", "F", "G", "H", "I", "J", "K", "L", "M",
             "N", "O", "P", "Q", "R", "S", "T", "U", "V", "W", "X", "Y", "Z" >>
Digits == << "0", "1", "2", "3", "4", "5", "6", "7", "8", "9" >>

IsDigit(c) == \E i \in 1..10 : Digits[i] = c
DigitVal(c) == (CHOOSE i \in 1..10 : Digits[i] = c) - 1
IsSpace(c) == c \in {" ", "\t", "\n"}

UpperChar(c) ==
    IF \E i \in 1..26 : Lowers[i] = c
    THEN Uppers[CHOOSE i \in 1..26 : Lowers[i] = c]
    ELSE c

\* str.upper
Upper(s) == [i \in 1..Len(s) |-> UpperChar(s[i])]

\* str.strip
Strip(s) ==
    LET keep == {i \in 1..Len(s) : ~IsSpace(s[i])} IN
    IF keep = {} THEN << >>
    ELSE LET lo == CHOOSE i \in keep : \A j \in keep : i <= j
             hi == CHOOSE i \in keep : \A j \in keep : j <= i
         IN SubSeq(s, lo, hi)

TxtNan == << "n", "a", "n" >>
TxtNone == << "N", "o", "n", "e" >>

\* decimal digits of a natural number
RECURSIVE NatText(_)
NatText(n) == IF n < 10 THEN << Digits[n + 1] >>
              ELSE NatText(n \div 10) \o << Digits[(n % 10) + 1] >>

\* str(value) as Series.astype(str) computes it (numbers: whole values only)
AsText(c) ==
    CASE c.k = "nan" -> TxtNan
      [] c.k = "num" -> (IF c.n < 0 THEN << "-" >> \o NatText((0 - c.n) \div Scale)
                         ELSE NatText(c.n \div Scale)) \o << ".", "0" >>
      [] OTHER -> c.s

\* whether text is an optionally signed run of digits
IsIntText(s) ==
    LET body == IF Len(s) > 0 /\ s[1] = "-" THEN Tail(s) ELSE s IN
    /\ Len(body) > 0
    /\ \A i \in 1..Len(body) : IsDigit(body[i])

RECURSIVE DigitsValue(_)
DigitsValue(s) == IF s = << >> THEN 0
                  ELSE 10 * DigitsValue(SubSeq(s, 1, Len(s) - 1)) + DigitVal(s[Len(s)])

\* pd.to_numeric(..., errors='coerce') on one value
ToNumeric(c) ==
    CASE c.k = "num" -> c
      [] c.k = "str" /\ IsIntText(c.s) ->
            IF c.s[1] = "-" THEN Num(0 - Scale * DigitsValue(Tail(c.s)))
            ELSE Num(Scale * DigitsValue(c.s))
      [] OTHER -> NaN

\* whether text reads as a calendar date YYYY-MM-DD
IsDateText(s) ==
    /\ Len(s) = 10
    /\ s[5] = "-" /\ s[8] = "-"
    /\ \A i \in {1, 2, 3, 4, 6, 7, 9, 10} : IsDigit(s[i])

\* pd.to_datetime(..., errors='coerce') on one value
ToDatetime(c) ==
    CASE c.k = "date" -> c
      [] c.k = "str" /\ IsDateText(c.s) -> Date(c.s)
      [] OTHER -> NaN

\* Series.round(6): to the nearest multiple of 1e-6, ties to even
Round6(n) ==
    LET q == n \div 10
        r == n % 10
    IN  IF r < 5 THEN 10 * q
        ELSE IF r > 5 THEN 10 * (q + 1)
        ELSE IF q % 2 = 0 THEN 10 * q ELSE 10 * (q + 1)

\* the elements of a sequence
Range(s) == {s[i] : i \in 1..Len(s)}

\* `col in df.columns`
HasCol(df, c) == \E i \in DOMAIN df.columns : df.columns[i] = c

\* len(df)
NRows(df) == Len(df.rows)

\* the members of s at the indices where mask is true, in order
FilterIdx(s, mask) ==
    LET F[i \in 0..Len(s)] ==
            IF i = 0 THEN << >>
            ELSE IF mask[i] THEN Append(F[i - 1], s[i]) ELSE F[i - 1]
    IN F[Len(s)]

\* df[mask] for a boolean series
Filter(df, mask) == [df EXCEPT !.rows = FilterIdx(df.rows, mask)]

\* df.drop_duplicates(): the first occurrence of every row is kept
DropDuplicates(df) ==
    Filter(df, [i \in 1..Len(df.rows) |-> \A j \in 1..(i - 1) : df.rows[j] # df.rows[i]])

\* df[col] = series, for an existing column
SetCol(df, c, series) ==
    [df EXCEPT !.rows = [i \in 1..Len(df.rows) |-> [df.rows[i] EXCEPT ![c] = series[i]]]]

\* df.rename(columns={old: new})
RenameCol(df, old, new) ==
    LET ren(c) == IF c = old THEN new ELSE c
        newset == {ren(c) : c \in Range(df.columns)}
    IN [columns |-> [i \in 1..Len(df.columns) |-> ren(df.columns[i])],
        rows    |-> [i \in 1..Len(df.rows) |->
                        [c \in newset |-> IF c = new THEN df.rows[i][old]
                                          ELSE df.rows[i][c]]]]

\* df[new] = series, for a column the frame does not have yet
AddCol(df, new, series) ==
    [columns |-> Append(df.columns, new),
     rows    |-> [i \in 1..Len(df.rows) |->
                     [c \in Range(df.columns) \cup {new} |->
                         IF c = new THEN series[i] ELSE df.rows[i][c]]]]

\* df[cols] for a list of columns
Project(df, cols) ==
    [columns |-> cols,
     rows    |-> [i \in 1..Len(df.rows) |-> [c \in Range(cols) |-> df.rows[i][c]]]]

\* df.dropna(subset=cols)
DropNa(df, cols) ==
    Filter(df, [i \in 1..Len(df.rows) |-> \A c \in Range(cols) : ~IsNa(df.rows[i][c])])

\* the members of list that are columns of df, in list order
Present(df, list) == SelectSeq(list, LAMBDA c : HasCol(df, c))

\* mutant: every chunk after the first starts one row early
ReadChunksOverlap(file, n) ==
    LET len == Len(file.rows)
        cnt == IF len = 0 THEN 1 ELSE (len + n - 1) \div n
    IN [k \in 1..cnt |->
           [columns |-> file.columns,
            rows    |-> SubSeq(file.rows, IF k = 1 THEN 1 ELSE (k - 1) * n,
                               IF k * n < len THEN k * n ELSE len)]]

\* the chunks pd.read_csv(file, chunksize=n) yields: consecutive slices of n
\* rows; a file with a header and no rows yields one empty chunk
ReadChunks(file, n) ==
    LET len == Len(file.rows)
        cnt == IF len = 0 THEN 1 ELSE (len + n - 1) \div n
    IN [k \in 1..cnt |->
           [columns |-> file.columns,
            rows    |-> SubSeq(file.rows, (k - 1) * n + 1,
                               IF k * n < len THEN k * n ELSE len)]]

\* pd.read_csv(file) as a whole
ReadCsv(file) == [columns |-> file.columns, rows |-> file.rows]

RECURSIVE ConcatRows(_)
ConcatRows(chunks) ==
    IF chunks = << >> THEN << >>
    ELSE Head(chunks).rows \o ConcatRows(Tail(chunks))

\* pd.concat(chunks, ignore_index=True) of frames that share their columns;
\* an empty list raises ValueError, which the callers test with chunks = << >>
Concat(chunks) ==
    [columns |-> chunks[1].columns, rows |-> ConcatRows(chunks)]

(***************************************************************************)
(* silver_layer.py: the cleaning routines                                  *)
(***************************************************************************)
FlightIn  == "flight_data_2018_2024.csv"
PoiIn     == "poi_data_osm.csv"
AttrIn    == "attractions_data_USA.csv"
FlightOut == "flight_data_cleaned.parquet"
PoiOut    == "poi_data_cleaned.parquet"
AttrOut   == "attractions_data_cleaned.parquet"

\* default chunk_size of clean_flight_data and of clean_poi_data
FlightChunkSize == 100000
PoiChunkSize == 50000

critical_cols == << "FlightDate", "Origin", "Dest" >>
airport_cols  == << "Origin", "Dest", "OriginCityName", "DestCityName" >>

\* step 3 of _clean_flight_chunk on one value: astype(str).str.strip().str.upper()
AirportCode(c) == Str(Upper(Strip(AsText(c))))

\* mutant: duplicates are dropped without being counted
HandleDuplicatesUncounted(df, st) == [df |-> DropDuplicates(df), stats |-> st]

\* step 1 of both chunk cleaners: drop_duplicates and its count
HandleDuplicates(df, st) ==
    [df    |-> DropDuplicates(df),
     stats |-> [st EXCEPT !.duplicates_removed = @ + (NRows(df) - NRows(DropDuplicates(df)))]]

\* step 2 of _clean_flight_chunk
StandardizeDates(df) ==
    IF HasCol(df, "FlightDate")
    THEN SetCol(df, "FlightDate", [i \in 1..NRows(df) |-> ToDatetime(df.rows[i]["FlightDate"])])
    ELSE df

\* step 3 of _clean_flight_chunk over the columns of list
AirportCols(df, list) ==
    LET done[k \in 0..Len(list)] ==
            IF k = 0 THEN df
            ELSE SetCol(done[k - 1], list[k],
                        [i \in 1..NRows(df) |-> AirportCode(df.rows[i][list[k]])])
    IN done[Len(list)]

\* step 3 of _clean_flight_chunk
StandardizeAirports(df) == AirportCols(df, Present(df, airport_cols))

\* step 6 of _clean_flight_chunk: df['Route'] = df['Origin'] + '-' + df['Dest']
DeriveRoute(df) ==
    IF HasCol(df, "Origin") /\ HasCol(df, "Dest")
    THEN AddCol(df, "Route",
                [i \in 1..NRows(df) |->
                    Str(df.rows[i]["Origin"].s \o << "-" >> \o df.rows[i]["Dest"].s)])
    ELSE df

\* step 7 of _clean_flight_chunk and its count
DropCritical(df, st) ==
    [df    |-> DropNa(df, Present(df, critical_cols)),
     stats |-> [st EXCEPT !.nulls_handled =
                    @ + (NRows(df) - NRows(DropNa(df, Present(df, critical_cols))))]]

\* _clean_flight_chunk(df, stats): the cleaned chunk and the updated stats.
\* The modelled flight files carry none of DepDelay, ArrDelay, Distance, AirTime,
\* Cancelled, Diverted, so steps 4, 5 and the IsDelayed half of step 6 do nothing.
CleanFlightChunk(df0, stats0) ==
    LET d == HandleDuplicates(df0, stats0) IN
    DropCritical(DeriveRoute(StandardizeAirports(StandardizeDates(d.df))), d.stats)

\* the chunk loop of clean_flight_data (lines 44-48)
FlightLoop(chs, st, acc) ==
    LET after[k \in 0..Len(chs)] ==
            IF k = 0 THEN [chunks |-> acc, stats |-> st]
            ELSE LET prev == after[k - 1]
                     r    == CleanFlightChunk(chs[k],
                                 [prev.stats EXCEPT !.original_rows = @ + NRows(chs[k])])
                 IN [prev EXCEPT !.chunks = Append(@, r.df), !.stats = r.stats]
    IN after[Len(chs)]

FlightStats0 == [original_rows |-> 0, rows_after_cleaning |-> 0,
                 duplicates_removed |-> 0, nulls_handled |-> 0, outliers_removed |-> 0]

\* clean_flight_data(chunk_size) on the bronze file: whether it raised, the frame
\* written to the output file, the stats stored in self.stats['flight']
CleanFlightData(file, chunk_size) ==
    IF file.kind # "csv"
    THEN [raised |-> TRUE, df |-> Absent, stats |-> Absent]
    ELSE LET l  == FlightLoop(ReadChunks(file, chunk_size), FlightStats0, << >>)
             df == Concat(l.chunks)
         IN [raised |-> FALSE, df |-> df,
             stats  |-> [l.stats EXCEPT !.rows_after_cleaning = NRows(df)]]

\* the rename loop of _clean_poi_chunk (lines 169-179), in dict order
coord_cols == << << "latitude", "latitude" >>, << "longitude", "longitude" >>,
                 << "lat", "latitude" >>, << "lon", "longitude" >> >>

RenameCoords(df, pairs) ==
    LET done[k \in 0..Len(pairs)] ==
            IF k = 0 THEN df
            ELSE IF HasCol(done[k - 1], pairs[k][1]) /\ ~HasCol(done[k - 1], pairs[k][2])
                 THEN RenameCol(done[k - 1], pairs[k][1], pairs[k][2])
                 ELSE done[k - 1]
    IN done[Len(pairs)]

\* the row filter of lines 190-197; LatMax and LonMax are whole degrees
LatMax == 90
LonMax == 180

\* mutant: the longitude bounds are not tested
ValidCoordsLatOnly(r) ==
    /\ ~IsNa(r["latitude"]) /\ ~IsNa(r["longitude"])
    /\ r["latitude"].n >= 0 - LatMax * Scale /\ r["latitude"].n <= LatMax * Scale

ValidCoords(r) ==
    /\ ~IsNa(r["latitude"]) /\ ~IsNa(r["longitude"])
    /\ r["latitude"].n >= 0 - LatMax * Scale /\ r["latitude"].n <= LatMax * Scale
    /\ r["longitude"].n >= 0 - LonMax * Scale /\ r["longitude"].n <= LonMax * Scale

RoundCell(c) == IF IsNa(c) THEN c ELSE Num(Round6(c.n))

\* step 6 of _clean_poi_chunk on one value
CleanName(c) ==
    LET t == Strip(AsText(c)) IN
    IF t \in {TxtNan, TxtNone, << >>} THEN NaN ELSE Str(t)

essential_cols == << "latitude", "longitude", "name", "amenity", "tourism", "shop",
                     "cuisine", "addr:city", "addr:state", "addr:street",
                     "addr:postcode", "phone", "website", "opening_hours" >>

\* step 3 of _clean_poi_chunk on a frame that has both coordinate columns
ToNumericCol(df, c) ==
    SetCol(df, c, [i \in 1..NRows(df) |-> ToNumeric(df.rows[i][c])])

RemoveInvalid(df) == Filter(df, [i \in 1..NRows(df) |-> ValidCoords(df.rows[i])])

RoundCol(df, c) ==
    SetCol(df, c, [i \in 1..NRows(df) |-> RoundCell(df.rows[i][c])])

ValidatedCoords(df) ==
    RoundCol(RoundCol(RemoveInvalid(ToNumericCol(ToNumericCol(df, "latitude"), "longitude")),
                      "latitude"), "longitude")

\* step 3 of _clean_poi_chunk and its count
ValidateCoordinates(df, st) ==
    IF HasCol(df, "latitude") /\ HasCol(df, "longitude")
    THEN [df    |-> ValidatedCoords(df),
          stats |-> [st EXCEPT !.invalid_coords_removed =
                         @ + (NRows(df) - NRows(ValidatedCoords(df)))]]
    ELSE [df |-> df, stats |-> st]

\* step 6 of _clean_poi_chunk
CleanNameCol(df) ==
    IF HasCol(df, "name")
    THEN SetCol(df, "name", [i \in 1..NRows(df) |-> CleanName(df.rows[i]["name"])])
    ELSE df

\* step 8 of _clean_poi_chunk
KeepEssential(df) == Project(df, Present(df, essential_cols))

\* _clean_poi_chunk(df, stats): the cleaned chunk and the updated stats.
\* The modelled POI files carry no address or category column (steps 4, 5, 7).
CleanPoiChunk(df0, stats0) ==
    LET d == HandleDuplicates(df0, stats0)
        v == ValidateCoordinates(RenameCoords(d.df, coord_cols), d.stats)
    IN [df |-> KeepEssential(CleanNameCol(v.df)), stats |-> v.stats]

\* the chunk loop of clean_poi_data (lines 138-143): empty cleaned chunks are skipped
PoiLoop(chs, st, acc) ==
    LET after[k \in 0..Len(chs)] ==
            IF k = 0 THEN [chunks |-> acc, stats |-> st]
            ELSE LET prev == after[k - 1]
                     r    == CleanPoiChunk(chs[k],
                                 [prev.stats EXCEPT !.original_rows = @ + NRows(chs[k])])
                 IN [prev EXCEPT !.chunks = IF NRows(r.df) > 0 THEN Append(@, r.df) ELSE @,
                                 !.stats = r.stats]
    IN after[Len(chs)]

PoiStats0 == [original_rows |-> 0, rows_after_cleaning |-> 0,
              duplicates_removed |-> 0, invalid_coords_removed |-> 0]

\* clean_poi_data(chunk_size): pd.concat raises when every chunk was skipped
CleanPoiData(file, chunk_size) ==
    IF file.kind # "csv"
    THEN [raised |-> TRUE, df |-> Absent, stats |-> Absent]
    ELSE LET l == PoiLoop(ReadChunks(file, chunk_size), PoiStats0, << >>) IN
         IF l.chunks = << >>
         THEN [raised |-> TRUE, df |-> Absent, stats |-> Absent]
         ELSE LET df == Concat(l.chunks) IN
              [raised |-> FALSE, df |-> df,
               stats  |-> [l.stats EXCEPT !.rows_after_cleaning = NRows(df)]]

\* rating.clip(lower=0, upper=5)
RatingMax == 5

ClipRating(c) ==
    IF IsNa(c) THEN c
    ELSE IF c.n < 0 THEN Num(0)
    ELSE IF c.n > RatingMax * Scale THEN Num(RatingMax * Scale) ELSE c

\* truncation toward zero, as astype(int) does on floats
Trunc(n) == IF n >= 0 THEN (n \div Scale) * Scale ELSE 0 - (((0 - n) \div Scale) * Scale)

\* lines 278-279 on one value: to_numeric, fillna(0), astype(int)
CleanReviews(c) ==
    LET v == ToNumeric(c) IN
    IF IsNa(v) THEN Num(0) ELSE Num(Trunc(v.n))

text_cols == << "name", "city", "state", "address" >>

\* step 2 of clean_attractions_data over the columns of list: astype(str).str.strip()
TextCols(df, list) ==
    LET done[k \in 0..Len(list)] ==
            IF k = 0 THEN df
            ELSE SetCol(done[k - 1], list[k],
                        [i \in 1..NRows(df) |-> Str(Strip(AsText(df.rows[i][list[k]])))])
    IN done[Len(list)]

\* step 2 of clean_attractions_data
CleanTextCols(df) == TextCols(df, Present(df, text_cols))

\* step 4 of clean_attractions_data: rating and reviews
CleanRating(df) ==
    IF HasCol(df, "rating")
    THEN SetCol(df, "rating",
                [i \in 1..NRows(df) |-> ClipRating(ToNumeric(df.rows[i]["rating"]))])
    ELSE df

CleanReviewsCol(df) ==
    IF HasCol(df, "reviews")
    THEN SetCol(df, "reviews", [i \in 1..NRows(df) |-> CleanReviews(df.rows[i]["reviews"])])
    ELSE df

\* the frame clean_attractions_data writes for the frame it read
CleanAttractions(df) == CleanReviewsCol(CleanRating(CleanTextCols(DropDuplicates(df))))

\* clean_attractions_data(). The modelled attractions files carry none of state,
\* main_category, zipcode, categories (steps 3, 5, 6, 7).
CleanAttractionsData(file) ==
    IF file.kind # "csv"
    THEN [raised |-> TRUE, df |-> Absent, stats |-> Absent]
    ELSE [raised |-> FALSE, df |-> CleanAttractions(ReadCsv(file)),
          stats  |-> [original_rows |-> NRows(ReadCsv(file)),
                      duplicates_removed |->
                          NRows(ReadCsv(file)) - NRows(DropDuplicates(ReadCsv(file))),
                      rows_after_cleaning |-> NRows(CleanAttractions(ReadCsv(file)))]]

(***************************************************************************)
(* bronze_layer.py                                                         *)
(***************************************************************************)
RawNames == {FlightIn, PoiIn, AttrIn, "flight_data.parquet"}
SilverNames == {FlightOut, PoiOut, AttrOut}

\* the suffix raw_dir.glob('*.csv') matches on
Extension(f) == IF f = "flight_data.parquet" THEN ".parquet" ELSE ".csv"

\* the files raw_dir.glob('*.csv') yields (in no particular order)
GlobCsv(dir) == {f \in DOMAIN dir : dir[f] # Absent /\ Extension(f) = ".csv"}

\* what shutil.copy2 can do: complete, raise before the destination is opened,
\* or raise while writing it
CopyOutcomes == {"ok", "fail_before", "fail_mid"}

\* a destination file left half-written by a failed copy
Truncated == [kind |-> "truncated"]

\* mutant: an existing destination is not overwritten
Copy2KeepExisting(src, dst, outcome) ==
    IF outcome = "ok" /\ dst = Absent THEN src
    ELSE IF outcome = "fail_mid" THEN Truncated ELSE dst

\* the destination after shutil.copy2(file, dest)
Copy2(src, dst, outcome) ==
    CASE outcome = "ok" -> src
      [] outcome = "fail_mid" -> Truncated
      [] OTHER -> dst

\* mutant: a failed copy is swallowed
Copy2NeverRaises(outcome) == FALSE

\* whether shutil.copy2 raised
Copy2Raises(outcome) == outcome # "ok"

\* the Status: line written after the copy (lines 49-54)
StatusLine(dst) == IF dst # Absent THEN "SUCCESS" ELSE "FAILED"

\* BronzeLayer() and copy_to_bronze up to its loop: directories, log header, glob
copy_to_bronze_begin ==
    /\ prog \in {"bronze_layer", "run_local_pipeline"} /\ pc = "start"
    /\ todo' = GlobCsv(raw)
    /\ log' = << >>
    /\ pc' = "bronze_loop"
    /\ UNCHANGED << prog, exitCode, loopVars, dlVars, fsVars, silverVars, upVars >>

\* one iteration of the loop of copy_to_bronze (lines 35-56). An exception of
\* shutil.copy2 is caught nowhere: it leaves the loop, copy_to_bronze and the
\* program, which ends with a traceback and exit status 1.
copy_to_bronze_iter ==
    /\ pc = "bronze_loop"
    /\ \E f \in todo, outcome \in CopyOutcomes :
          LET dst == Copy2(raw[f], bronze[f], outcome) IN
          /\ bronze' = [bronze EXCEPT ![f] = dst]
          /\ todo' = todo \ {f}
          /\ IF Copy2Raises(outcome)
             THEN /\ log' = Append(log, [file |-> f, size |-> TRUE, status |-> "none"])
                  /\ pc' = "raised"
                  /\ exitCode' = 1
             ELSE /\ log' = Append(log, [file |-> f, size |-> TRUE,
                                         status |-> StatusLine(dst)])
                  /\ UNCHANGED << pc, exitCode >>
    /\ UNCHANGED << prog, loopVars, dlVars, raw, silver, silverDir, silverVars, upVars >>

\* the loop is exhausted: the log is closed and copy_to_bronze returns
copy_to_bronze_return ==
    /\ pc = "bronze_loop" /\ todo = {}
    /\ pc' = "bronze_done"
    /\ UNCHANGED << prog, exitCode, loopVars, dlVars, fsVars, bronzeVars, silverVars, upVars >>

\* bronze_layer.py __main__ falls off its end
bronze_main_exit ==
    /\ prog = "bronze_layer" /\ pc = "bronze_done"
    /\ exitCode' = 0
    /\ pc' = "exited"
    /\ UNCHANGED << prog, loopVars, dlVars, fsVars, bronzeVars, silverVars, upVars >>

(***************************************************************************)
(* silver_layer.py: SilverLayer, run_all; run_local_pipeline.py            *)
(***************************************************************************)
NoStats == [flight |-> Absent, poi |-> Absent, attractions |-> Absent]

Parquet(df) == [kind |-> "parquet", df |-> df]

\* SilverLayer(): creates data/silver and logs, starts with empty stats; then
\* run_all up to its first step. Reached from silver_layer.py __main__ and from
\* main() of run_local_pipeline.py once copy_to_bronze has returned.
silver_init ==
    /\ prog \in {"silver_layer", "run_local_pipeline"}
    /\ pc = IF prog = "silver_layer" THEN "start" ELSE "bronze_done"
    /\ silverDir' = TRUE
    /\ stats' = NoStats
    /\ pc' = "flight"
    /\ UNCHANGED << prog, exitCode, loopVars, dlVars, raw, bronze, silver, bronzeVars,
                    steps, report, ncalls, lastcall, upVars >>

\* the effect of one cleaning method that returned r: output file, self.stats
Cleaned(name, out, r) ==
    IF r.raised
    THEN UNCHANGED << silver, stats >>
    ELSE /\ silver' = [silver EXCEPT ![out] = Parquet(r.df)]
         /\ stats' = [stats EXCEPT ![name] = r.stats]

\* mutant: an exception of a step is swallowed and run_all goes on
RunAllStepSwallow(name, out, r, next) ==
    /\ pc = name
    /\ steps' = Append(steps, [name |-> name, ok |-> ~r.raised])
    /\ Cleaned(name, out, r)
    /\ pc' = next
    /\ UNCHANGED << prog, exitCode, loopVars, dlVars, raw, bronze, silverDir, bronzeVars,
                    report, ncalls, lastcall, upVars >>

\* one cleaning step of run_all (lines 334-336): an exception of the step is
\* caught nowhere and ends the program with exit status 1
RunAllStep(name, out, r, next) ==
    /\ pc = name
    /\ steps' = Append(steps, [name |-> name, ok |-> ~r.raised])
    /\ Cleaned(name, out, r)
    /\ IF r.raised THEN pc' = "raised" /\ exitCode' = 1
                   ELSE pc' = next /\ UNCHANGED exitCode
    /\ UNCHANGED << prog, loopVars, dlVars, raw, bronze, silverDir, bronzeVars,
                    report, ncalls, lastcall, upVars >>

run_all_flight ==
    RunAllStep("flight", FlightOut, CleanFlightData(bronze[FlightIn], FlightChunkSize), "poi")

run_all_poi ==
    RunAllStep("poi", PoiOut, CleanPoiData(bronze[PoiIn], PoiChunkSize), "attractions")

run_all_attractions ==
    RunAllStep("attractions", AttrOut, CleanAttractionsData(bronze[AttrIn]), "report")

\* generate_cleaning_report: one section per dataset in self.stats
ReportOf(st) == [kind |-> "report", sections |-> st]

run_all_report ==
    /\ pc = "report"
    /\ steps' = Append(steps, [name |-> "report", ok |-> TRUE])
    /\ report' = ReportOf(stats)
    /\ pc' = "run_all_done"
    /\ UNCHANGED << prog, exitCode, loopVars, dlVars, fsVars, bronzeVars, stats,
                    ncalls, lastcall, upVars >>

\* run_all returned: silver_layer.py __main__ or main() of run_local_pipeline.py
\* prints its closing lines and the program ends normally
local_main_exit ==
    /\ prog \in {"silver_layer", "run_local_pipeline"} /\ pc = "run_all_done"
    /\ exitCode' = 0
    /\ pc' = "exited"
    /\ UNCHANGED << prog, loopVars, dlVars, fsVars, bronzeVars, silverVars, upVars >>

(***************************************************************************)
(* The cleaning methods called on one SilverLayer instance                 *)
(***************************************************************************)
MaxCalls == 2
MaxChunk == 3

MethodCall(name, out, r, cs) ==
    /\ prog = "silver_methods" /\ pc = "idle" /\ ncalls < MaxCalls
    /\ ncalls' = ncalls + 1
    /\ lastcall' = [name |-> name, chunk_size |-> cs, raised |-> r.raised]
    /\ Cleaned(name, out, r)
    /\ IF r.raised THEN pc' = "raised" /\ exitCode' = 1
                   ELSE UNCHANGED << pc, exitCode >>
    /\ UNCHANGED << prog, loopVars, dlVars, raw, bronze, silverDir, bronzeVars,
                    steps, report, upVars >>

clean_flight_data ==
    \E cs \in 1..MaxChunk :
        MethodCall("flight", FlightOut, CleanFlightData(bronze[FlightIn], cs), cs)

clean_poi_data ==
    \E cs \in 1..MaxChunk :
        MethodCall("poi", PoiOut, CleanPoiData(bronze[PoiIn], cs), cs)

clean_attractions_data ==
    MethodCall("attractions", AttrOut, CleanAttractionsData(bronze[AttrIn]), 0)

(***************************************************************************)
(* upload_to_gcp.py                                                        *)
(***************************************************************************)
FILES_TO_UPLOAD == << AttrOut, FlightOut, PoiOut >>

\* mutant: the guard prints its message and goes on
upload_guard_goes_on ==
    /\ prog = "upload_to_gcp" /\ pc = "start"
    /\ pc' = "client"
    /\ UNCHANGED << prog, exitCode, loopVars, dlVars, fsVars, bronzeVars, silverVars, upVars >>

\* the guard of upload_cleaned_data (lines 56-59): sys.exit(1) outside the try
upload_guard ==
    /\ prog = "upload_to_gcp" /\ pc = "start"
    /\ IF ~silverDir
       THEN pc' = "exited" /\ exitCode' = 1
       ELSE pc' = "client" /\ UNCHANGED exitCode
    /\ UNCHANGED << prog, loopVars, dlVars, fsVars, bronzeVars, silverVars, upVars >>

\* storage.Client(...) and client.bucket(...) (lines 63-67); a failure reaches the
\* handler of line 93, which exits with status 1
upload_client ==
    /\ prog = "upload_to_gcp" /\ pc = "client"
    /\ \E ok \in BOOLEAN :
          IF ok
          THEN /\ client' = TRUE
               /\ success_count' = 0
               /\ idx' = 1
               /\ pc' = "loop"
               /\ UNCHANGED exitCode
          ELSE /\ pc' = "exited"
               /\ exitCode' = 1
               /\ UNCHANGED << client, success_count, idx >>
    /\ UNCHANGED << prog, dlVars, fsVars, bronzeVars, silverVars, uploads >>

\* mutant: a failed upload ends the loop
upload_iter_stops_on_failure ==
    /\ prog = "upload_to_gcp" /\ pc = "loop" /\ idx <= Len(FILES_TO_UPLOAD)
    /\ LET filename == FILES_TO_UPLOAD[idx] IN
       IF silver[filename] = Absent
       THEN idx' = idx + 1 /\ UNCHANGED << uploads, success_count >>
       ELSE \E ok \in BOOLEAN :
               /\ uploads' = Append(uploads, [file |-> filename, result |-> ok])
               /\ success_count' = IF ok THEN success_count + 1 ELSE success_count
               /\ idx' = IF ok THEN idx + 1 ELSE Len(FILES_TO_UPLOAD) + 1
    /\ UNCHANGED << prog, pc, exitCode, dlVars, fsVars, bronzeVars, silverVars, client >>

\* one iteration of the loop of upload_cleaned_data (lines 69-80);
\* upload_file_to_gcp returns False on any exception
upload_iter ==
    /\ prog = "upload_to_gcp" /\ pc = "loop" /\ idx <= Len(FILES_TO_UPLOAD)
    /\ LET filename == FILES_TO_UPLOAD[idx] IN
       IF silver[filename] = Absent
       THEN UNCHANGED << uploads, success_count >>
       ELSE \E ok \in BOOLEAN :
               /\ uploads' = Append(uploads, [file |-> filename, result |-> ok])
               /\ success_count' = IF ok THEN success_count + 1 ELSE success_count
    /\ idx' = idx + 1
    /\ UNCHANGED << prog, pc, exitCode, dlVars, fsVars, bronzeVars, silverVars, client >>

\* the summary after the loop (lines 82-91); the program then ends normally
upload_finish ==
    /\ prog = "upload_to_gcp" /\ pc = "loop" /\ idx > Len(FILES_TO_UPLOAD)
    /\ pc' = "exited"
    /\ exitCode' = 0
    /\ UNCHANGED << prog, loopVars, dlVars, fsVars, bronzeVars, silverVars, upVars >>

(***************************************************************************)
(* Inputs: the files the programs find                                     *)
(***************************************************************************)
\* rows per file in the inputs of the cleaning methods
MaxRows == 3

\* a column list with, for each column, the field of a sample row it takes
ColsOf(schema) == [i \in 1..Len(schema) |-> schema[i][1]]

\* file contents as pd.read_csv parses them: the header and the parsed rows
CsvFile(schema, samples) ==
    [kind |-> "csv", columns |-> ColsOf(schema),
     rows |-> [i \in 1..Len(samples) |->
                  [c \in Range(ColsOf(schema)) |->
                      samples[i][schema[CHOOSE j \in 1..Len(schema) : schema[j][1] = c][2]]]]]

\* every file of up to n rows over the schemas and sample rows given
Files(schemas, samples, n) ==
    UNION {{CsvFile(sch, p) : p \in [1..k -> samples]} : sch \in schemas, k \in 0..n}

TxtGoodDate == << "2", "0", "2", "4", "-", "0", "1", "-", "1", "5" >>
TxtBadDate  == << "n", "/", "a" >>
TxtJfk      == << "j", "f", "k", " " >>
TxtLax      == << "l", "a", "x" >>

FlightSamples == {
    [date |-> Str(TxtGoodDate), origin |-> Str(TxtJfk), dest |-> Str(TxtLax)],
    [date |-> Str(TxtBadDate),  origin |-> Str(TxtJfk), dest |-> Str(TxtLax)],
    [date |-> NaN,              origin |-> Str(TxtJfk), dest |-> Str(TxtLax)],
    [date |-> Str(TxtGoodDate), origin |-> NaN,         dest |-> Str(TxtLax)],
    [date |-> Str(TxtGoodDate), origin |-> Str(TxtJfk), dest |-> NaN] }

FlightSchemas == {
    << << "FlightDate", "date" >>, << "Origin", "origin" >>, << "Dest", "dest" >> >>,
    << << "Origin", "origin" >>, << "Dest", "dest" >> >>,
    << << "FlightDate", "date" >>, << "Tail_Number", "dest" >> >> }

TxtCafe == << " ", "C", "a", "f", "e" >>
TxtAbc  == << "a", "b", "c" >>

\* 45.0000004, 95, "abc", 90 with 180.0000006, and "45" with -180
PoiSamples == {
    [la |-> Num(45 * Scale + 4), lo |-> Num(0 - 120 * Scale), name |-> Str(TxtCafe)],
    [la |-> Num(95 * Scale),     lo |-> Num(10 * Scale),      name |-> Str(TxtCafe)],
    [la |-> Str(TxtAbc),         lo |-> Num(10 * Scale),      name |-> NaN],
    [la |-> Num(90 * Scale),     lo |-> Num(180 * Scale + 6), name |-> Str(TxtNone)],
    [la |-> Str(<< "4", "5" >>), lo |-> Num(0 - 180 * Scale), name |-> Str(TxtCafe)] }

PoiSchemas == {
    << << "latitude", "la" >>, << "longitude", "lo" >>, << "name", "name" >> >>,
    << << "lat", "la" >>, << "lon", "lo" >>, << "osm_id", "name" >> >>,
    << << "lat", "la" >>, << "latitude", "la" >>, << "longitude", "lo" >> >>,
    << << "lat", "la" >>, << "name", "name" >> >>,
    << << "name", "name" >>, << "longitude", "lo" >> >> }

TxtZoo == << " ", "Z", "o", "o" >>

\* rating 4.5 / 7.5 / "abc" / -1, reviews 120 / missing / -3 / 3.7
AttrSamples == {
    [name |-> Str(TxtZoo), rating |-> Num(4 * Scale + 5000000), reviews |-> Num(120 * Scale)],
    [name |-> NaN,         rating |-> Num(7 * Scale + 5000000), reviews |-> NaN],
    [name |-> Str(TxtZoo), rating |-> Str(TxtAbc),              reviews |-> Num(0 - 3 * Scale)],
    [name |-> Str(TxtZoo), rating |-> Num(0 - Scale),           reviews |-> Num(3 * Scale + 7000000)] }

AttrSchemas == {
    << << "name", "name" >>, << "rating", "rating" >>, << "reviews", "reviews" >> >>,
    << << "name", "name" >> >> }

FlightFiles == Files(FlightSchemas, FlightSamples, MaxRows)
PoiFiles    == Files(PoiSchemas, PoiSamples, MaxRows)
AttrFiles   == Files(AttrSchemas, AttrSamples, MaxRows)

(***************************************************************************)
(* Specifications                                                          *)
(***************************************************************************)
NoFiles(names) == [f \in names |-> Absent]

InitCommon ==
    /\ exitCode = Running
    /\ idx = 0
    /\ success_count = 0
    /\ calls = << >>
    /\ saved = {}
    /\ todo = {}
    /\ log = << >>
    /\ stats = NoStats
    /\ steps = << >>
    /\ report = Absent
    /\ client = FALSE
    /\ uploads = << >>
    /\ ncalls = 0
    /\ lastcall = Absent

\* the two programs that talk to cloud storage
InitCloud ==
    /\ InitCommon
    /\ pc = "start"
    /\ prog \in {"download_from_gcp", "download_file", "upload_to_gcp"}
    /\ raw = NoFiles(RawNames)
    /\ bronze = NoFiles(RawNames)
    /\ silverDir \in BOOLEAN
    /\ silver \in [SilverNames -> {Absent, Parquet([columns |-> << "name" >>, rows |-> << >>])}]
    /\ (prog # "upload_to_gcp" \/ ~silverDir) => silver = NoFiles(SilverNames)
    /\ prog # "upload_to_gcp" => ~silverDir

NextCloud ==
    \/ download_file
    \/ download_all_begin
    \/ download_all_iter
    \/ download_all_return
    \/ download_main_exit
    \/ upload_guard
    \/ upload_client
    \/ upload_iter
    \/ upload_finish

SpecCloud == InitCloud /\ [][NextCloud]_vars

\* the files of the local programs: one ordinary file per dataset, a POI file
\* whose rows all have invalid coordinates, and header-only files left in
\* data/bronze by an earlier run
LocalFlight == CsvFile(
    << << "FlightDate", "date" >>, << "Origin", "origin" >>, << "Dest", "dest" >> >>,
    << [date |-> Str(TxtGoodDate), origin |-> Str(TxtJfk), dest |-> Str(TxtLax)],
       [date |-> Str(TxtBadDate),  origin |-> Str(TxtJfk), dest |-> Str(TxtLax)] >>)

LocalPoi == CsvFile(
    << << "lat", "la" >>, << "lon", "lo" >>, << "name", "name" >> >>,
    << [la |-> Num(45 * Scale + 4), lo |-> Num(0 - 120 * Scale), name |-> Str(TxtCafe)],
       [la |-> Num(95 * Scale),     lo |-> Num(10 * Scale),      name |-> Str(TxtCafe)] >>)

LocalPoiInvalid == CsvFile(
    << << "lat", "la" >>, << "lon", "lo" >>, << "name", "name" >> >>,
    << [la |-> Num(95 * Scale), lo |-> Num(10 * Scale), name |-> Str(TxtCafe)] >>)

LocalAttr == CsvFile(
    << << "name", "name" >>, << "reviews", "reviews" >> >>,
    << [name |-> Str(TxtZoo), reviews |-> Num(120 * Scale)],
       [name |-> Str(TxtZoo), reviews |-> Num(120 * Scale)] >>)

HeaderOnly(file) == [file EXCEPT !.rows = << >>]


RawChoices(f) ==
    CASE f = FlightIn -> {Absent, LocalFlight}
      [] f = PoiIn    -> {Absent, LocalPoi, LocalPoiInvalid}
      [] f = AttrIn   -> {Absent, LocalAttr}
      [] OTHER        -> {Absent, [kind |-> "blob"]}

StaleChoices(f) ==
    CASE f = FlightIn -> {Absent, HeaderOnly(LocalFlight)}
      [] f = PoiIn    -> {Absent, HeaderOnly(LocalPoi)}
      [] f = AttrIn   -> {Absent, HeaderOnly(LocalAttr)}
      [] OTHER        -> {Absent}

\* bronze_layer.py, silver_layer.py and run_local_pipeline.py as programs
InitLocal ==
    /\ InitCommon
    /\ pc = "start"
    /\ prog \in {"bronze_layer", "silver_layer", "run_local_pipeline"}
    /\ silverDir = FALSE
    /\ silver = NoFiles(SilverNames)
    /\ raw \in [RawNames -> UNION {RawChoices(f) : f \in RawNames}]
    /\ \A f \in RawNames : raw[f] \in RawChoices(f)
    /\ bronze \in [RawNames -> UNION {RawChoices(f) \cup StaleChoices(f) : f \in RawNames}]
    /\ IF prog = "silver_layer"
       THEN /\ raw = NoFiles(RawNames)
            /\ \A f \in RawNames : bronze[f] \in RawChoices(f)
       ELSE \A f \in RawNames : bronze[f] \in StaleChoices(f)

NextLocal ==
    \/ copy_to_bronze_begin
    \/ copy_to_bronze_iter
    \/ copy_to_bronze_return
    \/ bronze_main_exit
    \/ silver_init
    \/ run_all_flight
    \/ run_all_poi
    \/ run_all_attractions
    \/ run_all_report
    \/ local_main_exit

SpecLocal == InitLocal /\ [][NextLocal]_vars

\* the cleaning methods of one SilverLayer instance, called on one bronze file
InitClean ==
    /\ InitCommon
    /\ pc = "idle"
    /\ prog = "silver_methods"
    /\ raw = NoFiles(RawNames)
    /\ silverDir = TRUE
    /\ silver = NoFiles(SilverNames)
    /\ \E f \in {FlightIn, PoiIn, AttrIn} :
          \E file \in (CASE f = FlightIn -> FlightFiles
                         [] f = PoiIn    -> PoiFiles
                         [] OTHER        -> AttrFiles) :
             bronze = [NoFiles(RawNames) EXCEPT ![f] = file]

NextClean ==
    \/ clean_flight_data
    \/ clean_poi_data
    \/ clean_attractions_data

SpecClean == InitClean /\ [][NextClean]_vars

(***************************************************************************)
(* Claims                                                                  *)
(***************************************************************************)
\* C1: in download_file a 401/403 failure of the public request causes exactly
\* one authenticated attempt, and a 404/500 failure causes none and returns false.
\* The code decides on the text of the error, which holds the URL.
C1_FallbackOnlyOnAuthStatus ==
    \A i \in 1..Len(calls) :
        /\ calls[i].public \in {"http401", "http403"} => calls[i].authAttempts = 1
        /\ calls[i].public \in {"http404", "http500"} =>
               calls[i].authAttempts = 0 /\ ~calls[i].result

\* the invocation of copy_to_bronze is over, however it ended
BronzeOver ==
    /\ prog \in {"bronze_layer", "run_local_pipeline"}
    /\ pc \notin {"start", "bronze_loop"}

\* copy_to_bronze returned normally
BronzeReturned ==
    /\ BronzeOver
    /\ pc = "raised" => steps # << >>

\* C2: a failed copy of one raw CSV file does not abort copy_to_bronze: once the
\* invocation is over, every *.csv file of the raw directory has been processed.
C2_FailedCopyDoesNotAbort ==
    BronzeOver => \A f \in GlobCsv(raw) : \E i \in 1..Len(log) : log[i].file = f

\* C3: after any invocation of copy_to_bronze the log holds exactly one complete
\* File/Size/Status block per file processed, and the status is SUCCESS iff the
\* bronze file exists (otherwise FAILED).
C3_LogBlockPerFile ==
    BronzeOver =>
        /\ \A i, j \in 1..Len(log) : log[i].file = log[j].file => i = j
        /\ \A i \in 1..Len(log) :
              /\ log[i].size
              /\ log[i].status \in {"SUCCESS", "FAILED"}
              /\ log[i].status = "SUCCESS" <=> bronze[log[i].file] # Absent

StepNames == << "flight", "poi", "attractions", "report" >>
StepOutputs == << FlightOut, PoiOut, AttrOut >>

\* C4: run_all runs flight, POI, attractions, report in that order; a failed step
\* is the last step run, so that no later output file and no report is written.
C4_RunAllOrder ==
    /\ Len(steps) <= Len(StepNames)
    /\ \A i \in 1..Len(steps) :
          /\ steps[i].name = StepNames[i]
          /\ ~steps[i].ok => i = Len(steps) /\ pc = "raised"
    /\ report # Absent => Len(steps) = Len(StepNames) /\ \A i \in 1..Len(steps) : steps[i].ok
    /\ \A k \in 1..Len(StepOutputs) :
          silver[StepOutputs[k]] # Absent => Len(steps) >= k /\ steps[k].ok

\* the POI step of run_all failed after the flight step wrote its output
C4_Witness ==
    /\ Len(steps) = 2 /\ steps[1].ok /\ ~steps[2].ok
    /\ silver[FlightOut] # Absent /\ silver[PoiOut] = Absent /\ silver[AttrOut] = Absent
    /\ bronze[AttrIn] # Absent
    /\ report = Absent

\* C5: with no silver directory upload_cleaned_data exits with status 1, having
\* constructed no client and attempted no upload.
C5_UploadGuard ==
    (prog = "upload_to_gcp" /\ ~silverDir) =>
        /\ pc \in {"start", "exited"}
        /\ pc = "exited" => exitCode = 1
        /\ ~client
        /\ uploads = << >>

C5_Witness ==
    prog = "upload_to_gcp" /\ ~silverDir /\ pc = "exited" /\ exitCode = 1

\* C6: download_all_datasets calls download_file once per table entry, in table
\* order, whatever the earlier results; it returns true iff every call returned
\* true, and the program exits with status 1 exactly when it returned false.
C6_DownloadAll ==
    prog = "download_from_gcp" =>
        /\ Len(calls) <= Len(GCP_URLS)
        /\ \A i \in 1..Len(calls) : calls[i].key = GCP_URLS[i].filename
        /\ pc \in {"returned", "exited"} =>
              /\ Len(calls) = Len(GCP_URLS)
              /\ DownloadAllResult <=> \A i \in 1..Len(calls) : calls[i].result
        /\ pc = "exited" =>
              /\ exitCode \in {0, 1}
              /\ exitCode = 1 <=> \E i \in 1..Len(calls) : ~calls[i].result

\* the first download failed, the later ones were still made, the exit status is 1
C6_Witness ==
    /\ prog = "download_from_gcp" /\ pc = "exited" /\ exitCode = 1
    /\ Len(calls) = Len(GCP_URLS)
    /\ ~calls[1].result /\ calls[2].result /\ calls[Len(GCP_URLS)].result

SilverPcs == {"flight", "poi", "attractions", "report", "run_all_done"}

\* C7 as stated: the local pipeline ends with exit status 0 in every run, also
\* when a file copy fails or an exception propagates from the Silver Layer.
C7_AlwaysExitZero ==
    (prog = "run_local_pipeline" /\ pc \in {"exited", "raised"}) => exitCode = 0

\* C7, amended: the Silver Layer starts only once copy_to_bronze has processed
\* every raw CSV file without an error; the program ends with exit status 0
\* exactly when no exception propagated, and with exit status 1 when a copy or a
\* Silver Layer step raised.
C7_PipelineExit ==
    prog = "run_local_pipeline" =>
        /\ (pc \in SilverPcs \/ steps # << >>) =>
              /\ todo = {}
              /\ Len(log) = Cardinality(GlobCsv(raw))
              /\ \A i \in 1..Len(log) :
                    log[i].status = "SUCCESS" /\ bronze[log[i].file] = raw[log[i].file]
        /\ pc = "exited" =>
              /\ exitCode = 0
              /\ Len(steps) = Len(StepNames) /\ \A i \in 1..Len(steps) : steps[i].ok
        /\ pc = "raised" => exitCode = 1
        /\ pc \notin {"exited", "raised"} => exitCode = Running

\* an exception of a Silver Layer step ended the pipeline after a complete copy
C7_Witness ==
    /\ prog = "run_local_pipeline" /\ pc = "raised" /\ exitCode = 1
    /\ steps # << >> /\ ~steps[Len(steps)].ok
    /\ Len(log) = 3

\* C8: once copy_to_bronze has returned, every *.csv file of the raw directory
\* has a bronze file of the same name and content, and no raw file was changed.
C8_BronzeCopyFidelity ==
    [][ /\ raw' = raw
        /\ BronzeReturned' => \A f \in GlobCsv(raw') : bronze'[f] = raw'[f] ]_vars

\* a completed copy of three CSV files; the file that is no CSV was left out
C8_Witness ==
    /\ BronzeReturned
    /\ Cardinality(GlobCsv(raw)) = 3
    /\ raw["flight_data.parquet"] # Absent /\ bronze["flight_data.parquet"] = Absent
    /\ \A f \in GlobCsv(raw) : bronze[f] = raw[f]

InputOf(out) ==
    CASE out = FlightOut -> FlightIn
      [] out = PoiOut    -> PoiIn
      [] OTHER           -> AttrIn

\* C9: a silver dataset never has more rows than the bronze file it was read from.
C9_NeverAddsRows ==
    \A out \in SilverNames :
        silver[out] # Absent =>
            NRows(silver[out].df) <= Len(bronze[InputOf(out)].rows)

\* a file read in several chunks lost some of its rows and kept others
C9_Witness ==
    /\ lastcall # Absent /\ lastcall.name = "poi" /\ ~lastcall.raised
    /\ lastcall.chunk_size = 1
    /\ Len(bronze[PoiIn].rows) = MaxRows
    /\ NRows(silver[PoiOut].df) > 1
    /\ NRows(silver[PoiOut].df) < Len(bronze[PoiIn].rows)

InRange(c, max) == c.k = "num" /\ c.n >= 0 - max * Scale /\ c.n <= max * Scale

\* C10 as stated: every latitude value of the POI silver dataset is within
\* [-90, 90] and every longitude value within [-180, 180], whichever of the
\* columns lat, lon, latitude, longitude the input has.
C10_CoordsInRangeAnyColumns ==
    silver[PoiOut] # Absent =>
        LET df == silver[PoiOut].df IN
        \A i \in 1..NRows(df) :
            /\ (HasCol(df, "latitude") /\ ~IsNa(df.rows[i]["latitude"])) =>
                   InRange(df.rows[i]["latitude"], LatMax)
            /\ (HasCol(df, "longitude") /\ ~IsNa(df.rows[i]["longitude"])) =>
                   InRange(df.rows[i]["longitude"], LonMax)

\* C10, amended: when the POI input has both a latitude and a longitude column
\* (named latitude/longitude or lat/lon), every row of the POI silver dataset has
\* its latitude within [-90, 90] and its longitude within [-180, 180].
C10_CoordsInRange ==
    silver[PoiOut] # Absent =>
        LET df == silver[PoiOut].df IN
        (HasCol(df, "latitude") /\ HasCol(df, "longitude")) =>
            \A i \in 1..NRows(df) :
                /\ InRange(df.rows[i]["latitude"], LatMax)
                /\ InRange(df.rows[i]["longitude"], LonMax)

\* rows with invalid coordinates were removed from a lat/lon input, others kept
C10_Witness ==
    /\ silver[PoiOut] # Absent
    /\ HasCol(bronze[PoiIn], "lat") /\ HasCol(bronze[PoiIn], "lon")
    /\ HasCol(silver[PoiOut].df, "latitude") /\ HasCol(silver[PoiOut].df, "longitude")
    /\ NRows(silver[PoiOut].df) > 0
    /\ stats.poi.invalid_coords_removed > 0

\* C11: every value of the reviews column of the attractions silver dataset is
\* a non-negative whole number, whatever the input value was (missing,
\* unparsable, fractional or negative).
C11_ReviewsNonNegative ==
    silver[AttrOut] # Absent =>
        LET df == silver[AttrOut].df IN
        HasCol(df, "reviews") =>
            \A i \in 1..NRows(df) :
                /\ df.rows[i]["reviews"].k = "num"
                /\ df.rows[i]["reviews"].n % Scale = 0
                /\ df.rows[i]["reviews"].n >= 0

\* the rows of a flight file that miss none of the critical columns it has
CompleteRows(file) ==
    {i \in 1..Len(file.rows) :
        \A c \in Range(Present(file, critical_cols)) : ~IsNa(file.rows[i][c])}

\* C12: flight cleaning drops every input row whose FlightDate, Origin or Dest
\* is missing: the flight silver dataset has no more rows than the input has
\* rows complete in the critical columns it carries, and no Origin, Dest or Route
\* of the silver dataset was built from a missing value.
C12_MissingCriticalDropped ==
    silver[FlightOut] # Absent =>
        LET df == silver[FlightOut].df IN
        /\ NRows(df) <= Cardinality(CompleteRows(bronze[FlightIn]))
        /\ \A i \in 1..NRows(df) :
              \A c \in {"Origin", "Dest"} :
                  HasCol(df, c) => df.rows[i][c] # AirportCode(NaN)
        /\ HasCol(df, "Route") =>
              \A i \in 1..NRows(df) :
                  \A t \in {AirportCode(NaN).s} :
                      /\ SubSeq(df.rows[i]["Route"].s, 1, Len(t) + 1) # t \o << "-" >>
                      /\ df.rows[i]["Route"].s # df.rows[i]["Origin"].s \o << "-" >> \o t

\* C13: with an existing POI bronze file, clean_poi_data never raises, whatever
\* the coordinate values are: it completes, writes the output file and records
\* its statistics, also when every row of every chunk was removed.
C13_PoiNeverRaises ==
    (lastcall # Absent /\ lastcall.name = "poi" /\ bronze[PoiIn] # Absent) =>
        /\ ~lastcall.raised
        /\ silver[PoiOut] # Absent
        /\ stats.poi # Absent
        /\ stats.poi.rows_after_cleaning = NRows(silver[PoiOut].df)

\* the entries of the upload table visited so far whose local file exists
PresentVisited ==
    SelectSeq(SubSeq(FILES_TO_UPLOAD, 1, idx - 1), LAMBDA f : silver[f] # Absent)

\* C14: once the client is constructed, upload_cleaned_data visits the upload
\* table in order; the upload attempts are exactly the visited entries whose
\* local file exists, one attempt each, whatever the earlier results were; the
\* success count is the number of attempts that returned true; the program ends
\* only after the last entry, with exit status 0.
C14_UploadLoop ==
    (prog = "upload_to_gcp" /\ client) =>
        /\ pc \in {"loop", "exited"}
        /\ idx \in 1..(Len(FILES_TO_UPLOAD) + 1)
        /\ Len(uploads) = Len(PresentVisited)
        /\ \A i \in 1..Len(uploads) : uploads[i].file = PresentVisited[i]
        /\ success_count = Cardinality({i \in 1..Len(uploads) : uploads[i].result})
        /\ pc = "loop" => exitCode = Running
        /\ pc = "exited" => (idx = Len(FILES_TO_UPLOAD) + 1 /\ exitCode = 0)

\* the first file failed to upload, the second was absent, the third was
\* uploaded, and the program ended with status 0
C14_Witness ==
    /\ prog = "upload_to_gcp" /\ client /\ pc = "exited" /\ exitCode = 0
    /\ silver[FILES_TO_UPLOAD[2]] = Absent
    /\ Len(uploads) = 2 /\ success_count = 1
    /\ uploads[1] = [file |-> FILES_TO_UPLOAD[1], result |-> FALSE]
    /\ uploads[2] = [file |-> FILES_TO_UPLOAD[3], result |-> TRUE]

\* C15: the statistics a chunked cleaner records account for every row of the
\* file it read, whatever the chunk size and however often the instance has
\* cleaned the dataset before: original_rows is the number of rows of the bronze
\* file, rows_after_cleaning the number of rows written, and their difference is
\* duplicates_removed plus nulls_handled (flight, with outliers_removed = 0) or
\* duplicates_removed plus invalid_coords_removed (POI).
C15_RowAccounting ==
    /\ stats.flight # Absent =>
          /\ stats.flight.original_rows = Len(bronze[FlightIn].rows)
          /\ stats.flight.rows_after_cleaning = NRows(silver[FlightOut].df)
          /\ stats.flight.original_rows - stats.flight.duplicates_removed
                 - stats.flight.nulls_handled = stats.flight.rows_after_cleaning
          /\ stats.flight.outliers_removed = 0
    /\ stats.poi # Absent =>
          /\ stats.poi.original_rows = Len(bronze[PoiIn].rows)
          /\ stats.poi.rows_after_cleaning = NRows(silver[PoiOut].df)
          /\ stats.poi.original_rows - stats.poi.duplicates_removed
                 - stats.poi.invalid_coords_removed = stats.poi.rows_after_cleaning

\* the same instance cleaned the POI file twice, the second time in chunks of
\* two rows, removing a duplicate and an invalid row and keeping a row
C15_Witness ==
    /\ ncalls = 2 /\ lastcall.name = "poi" /\ ~lastcall.raised /\ lastcall.chunk_size = 2
    /\ silver[FlightOut] = Absent /\ silver[AttrOut] = Absent
    /\ stats.poi.original_rows = MaxRows
    /\ stats.poi.duplicates_removed = 1
    /\ stats.poi.invalid_coords_removed = 1
    /\ stats.poi.rows_after_cleaning = 1

====
